---- MODULE Spec2Model ----
(***************************************************************************)
(* Review aggregation pipeline of mlops/scripts/scraping/review_scraper.py *)
(*   _get_domain_name, _search_for_review_pages, _scrape_reviews_from_page *)
(*   and fetch_reviews_for_item.                                           *)
(* JustWatchScraper.get_new_releases of                                    *)
(*   backend/data_collection/justwatch_scraper.py.                         *)
(*                                                                         *)
(* Python values are modelled as tagged records [k, v]; v is always a      *)
(* sequence.  A str is the sequence of its characters, so that startswith, *)
(* strip, replace and urlparse are computed character by character.        *)
(***************************************************************************)
EXTENDS Integers, Sequences, FiniteSets, TLC

\* ------------------------------------------------------------------------
\* Bounds of the model
\* ------------------------------------------------------------------------
MaxLimit == 2
MaxHits == 3
MaxRaw == 2
MaxParts == 3
MaxItems == 3

\* ------------------------------------------------------------------------
\* Python values
\* ------------------------------------------------------------------------
PyNone == [k |-> "none", v |-> <<>>]
PyStr(s) == [k |-> "str", v |-> s]
PyNum(n) == [k |-> "num", v |-> <<n>>]
PyList(l) == [k |-> "list", v |-> l]
PyDict(pairs) == [k |-> "dict", v |-> pairs]

IsStr(x) == x.k = "str"
IsList(x) == x.k = "list"
IsDict(x) == x.k = "dict"

\* bool(x)
Truthy(x) ==
    CASE x.k = "none" -> FALSE
      [] x.k = "num" -> x.v[1] # 0
      [] OTHER -> x.v # <<>>

HasKey(d, key) == \E i \in 1..Len(d.v) : d.v[i][1] = key

\* d[key] for a key that is present
Item(d, key) == d.v[CHOOSE i \in 1..Len(d.v) : d.v[i][1] = key][2]

\* d.get(key, default) on a dict
DictGetDefault(d, key, default) == IF HasKey(d, key) THEN Item(d, key) ELSE default

\* d.get(key) on a dict
DictGet(d, key) == DictGetDefault(d, key, PyNone)

\* ------------------------------------------------------------------------
\* str operations (on sequences of characters)
\* ------------------------------------------------------------------------
StartsWith(s, p) == Len(s) >= Len(p) /\ SubSeq(s, 1, Len(p)) = p

EndsWith(s, p) == Len(s) >= Len(p) /\ SubSeq(s, Len(s) - Len(p) + 1, Len(s)) = p

\* p in s
Contains(s, p) == \E i \in 1..(Len(s) - Len(p) + 1) : SubSeq(s, i, i + Len(p) - 1) = p

Whitespace == {" "}

RECURSIVE LStrip(_)
LStrip(s) == IF s # <<>> /\ Head(s) \in Whitespace THEN LStrip(Tail(s)) ELSE s

RECURSIVE RStrip(_)
RStrip(s) ==
    IF s # <<>> /\ s[Len(s)] \in Whitespace THEN RStrip(SubSeq(s, 1, Len(s) - 1)) ELSE s

\* s.strip()
Strip(s) == RStrip(LStrip(s))

\* s.replace(old, ""): every non-overlapping occurrence, left to right
RECURSIVE ReplaceAll(_, _)
ReplaceAll(s, old) ==
    IF s = <<>> THEN <<>>
    ELSE IF StartsWith(s, old) THEN ReplaceAll(SubSeq(s, Len(old) + 1, Len(s)), old)
    ELSE <<Head(s)>> \o ReplaceAll(Tail(s), old)

\* s.lower() on the letters of the ASCII alphabet
UpperCase == <<"A", "B", "C", "D", "E", "F", "G", "H", "I", "J", "K", "L", "M",
               "N", "O", "P", "Q", "R", "S", "T", "U", "V", "W", "X", "Y", "Z">>
LowerCase == <<"a", "b", "c", "d", "e", "f", "g", "h", "i", "j", "k", "l", "m",
               "n", "o", "p", "q", "r", "s", "t", "u", "v", "w", "x", "y", "z">>
LowerChar(c) ==
    IF \E i \in 1..Len(UpperCase) : UpperCase[i] = c
    THEN LowerCase[CHOOSE i \in 1..Len(UpperCase) : UpperCase[i] = c]
    ELSE c
Lower(s) == [i \in 1..Len(s) |-> LowerChar(s[i])]

\* string literals of the source
HTTP == <<"h", "t", "t", "p", ":", "/", "/">>
HTTPS == <<"h", "t", "t", "p", "s", ":", "/", "/">>
FTP == <<"f", "t", "p", ":", "/", "/">>
WWW == <<"w", "w", "w", ".">>
DOT == <<".">>
UnknownSource == <<"U", "n", "k", "n", "o", "w", "n", " ", "S", "o", "u", "r", "c", "e">>
TvShow == <<"t", "v", "-", "s", "h", "o", "w">>
Series == <<"s", "e", "r", "i", "e", "s">>
MovieReviews == <<" ", "m", "o", "v", "i", "e", " ", "r", "e", "v", "i", "e", "w", "s">>
TvSeriesReviews == <<" ", "T", "V", " ", "s", "e", "r", "i", "e", "s", " ",
                     "r", "e", "v", "i", "e", "w", "s">>
UnknownPage == <<"U", "n", "k", "n", "o", "w", "n", " ", "P", "a", "g", "e">>

\* ------------------------------------------------------------------------
\* urllib.parse.urlparse(url).netloc
\* ------------------------------------------------------------------------
Digits == {"0", "1", "2", "3", "4", "5", "6", "7", "8", "9"}
NonSchemeChars == {":", "/", "?", "#", "[", "]", " ", "@"}
IsSchemeChar(c) == c \notin NonSchemeChars
IsAlpha(c) == c \notin NonSchemeChars /\ c \notin Digits /\ c \notin {".", "+", "-"}

\* s.find(c in cs) + 1; 0 when absent
FirstIndex(s, cs) ==
    IF \E i \in 1..Len(s) : s[i] \in cs
    THEN CHOOSE i \in 1..Len(s) : s[i] \in cs /\ \A j \in 1..(i - 1) : s[j] \notin cs
    ELSE 0

\* the url with its "scheme:" removed, as urlsplit does before it looks for "//"
AfterScheme(url) ==
    LET p == FirstIndex(url, {":"})
    IN  IF p > 1 /\ IsAlpha(url[1]) /\ \A j \in 1..(p - 1) : IsSchemeChar(url[j])
        THEN SubSeq(url, p + 1, Len(url))
        ELSE url

\* [exc, val]: the netloc, or ValueError("Invalid IPv6 URL") on an unmatched bracket
UrlparseNetloc(url) ==
    LET rest == AfterScheme(url)
    IN  IF StartsWith(rest, <<"/", "/">>)
        THEN LET after == SubSeq(rest, 3, Len(rest))
                 d == FirstIndex(after, {"/", "?", "#"})
                 netloc == IF d = 0 THEN after ELSE SubSeq(after, 1, d - 1)
                 open == Contains(netloc, <<"[">>)
                 close == Contains(netloc, <<"]">>)
             IN  IF open # close
                 THEN [exc |-> "ValueError", val |-> <<>>]
                 ELSE [exc |-> "none", val |-> netloc]
        ELSE [exc |-> "none", val |-> <<>>]

\* ------------------------------------------------------------------------
\* _get_domain_name
\* ------------------------------------------------------------------------
\* the try block; url is any Python value.  [exc, val]
GetDomainNameTry(url) ==
    IF ~Truthy(url)
    THEN \* the scheme block is skipped; urlparse of a falsy value has no netloc
         [exc |-> "none", val |-> UnknownSource]
    ELSE IF ~IsStr(url)
    THEN [exc |-> "AttributeError", val |-> <<>>]      \* url.startswith
    ELSE LET s == url.v
             hasScheme == StartsWith(s, HTTP) \/ StartsWith(s, HTTPS) \/ StartsWith(s, FTP)
             bare == Contains(s, DOT) /\ ~StartsWith(s, DOT) /\ ~EndsWith(s, DOT)
         IN  IF ~hasScheme /\ ~StartsWith(s, WWW) /\ ~bare
             THEN [exc |-> "none", val |-> UnknownSource]
             ELSE LET u == IF hasScheme THEN s ELSE HTTP \o s
                      parsed == UrlparseNetloc(u)
                  IN  IF parsed.exc # "none" THEN parsed
                      ELSE IF parsed.val = <<>>
                      THEN [exc |-> "none", val |-> UnknownSource]
                      ELSE [exc |-> "none", val |-> ReplaceAll(parsed.val, WWW)]

\* a handler that lets the exception through
GetDomainNameExceptReraise(r) == r

\* try ... except Exception: return "Unknown Source".  [exc, val]
GetDomainNameExcept(r) ==
    IF r.exc # "none" THEN [exc |-> "none", val |-> UnknownSource] ELSE r

\* the call with its outcome.  [exc, val]
GetDomainNameCall(url) == GetDomainNameExcept(GetDomainNameTry(url))

\* the string returned
_get_domain_name(url) == GetDomainNameCall(url).val

\* ------------------------------------------------------------------------
\* Replies of the two collaborators (SESSION.post(...), raise_for_status(),
\* response.json()): a status and, when the status is "ok", the decoded body
\* ------------------------------------------------------------------------
Reply(status, body) == [status |-> status, body |-> body]
OkReply(body) == Reply("ok", body)
FailedStatuses == {"transport", "http_error", "bad_json"}

\* the exception the three calls raise for a reply, "none" when json() returns
ReplyException(resp) ==
    CASE resp.status = "transport" -> "ConnectionError"
      [] resp.status = "http_error" -> "HTTPError"
      [] resp.status = "bad_json" -> "JSONDecodeError"
      [] OTHER -> "none"

Min(a, b) == IF a <= b THEN a ELSE b

\* l[:n] for n >= 0
Slice(l, n) == SubSeq(l, 1, Min(n, Len(l)))

\* ------------------------------------------------------------------------
\* _search_for_review_pages
\* ------------------------------------------------------------------------
\* a query whose test for "series" looks at the URL as it is written
SearchQueryCaseSensitive(item_title, item_detail_url) ==
    IF Contains(item_detail_url, TvShow) \/ Contains(item_detail_url, Series)
    THEN item_title \o TvSeriesReviews
    ELSE item_title \o MovieReviews

\* lines 105-107: the query string
SearchQuery(item_title, item_detail_url) ==
    IF Contains(item_detail_url, TvShow) \/ Contains(Lower(item_detail_url), Series)
    THEN item_title \o TvSeriesReviews
    ELSE item_title \o MovieReviews

\* lines 110-114: the payload posted to the search service
SearchPayload(item_title, item_detail_url, search_limit) ==
    [query |-> SearchQuery(item_title, item_detail_url), limit |-> search_limit]

\* a page descriptor {"url": ..., "title": ...}
Descriptor(url, title) == [url |-> url, title |-> title]

\* a result that is kept whether or not it has a URL
KeepsHitAlways(r) == TRUE

\* line 126: if r.get("url")
KeepsHit(r) == Truthy(DictGet(r, "url"))

\* a comprehension that puts each kept result before the earlier ones
RECURSIVE SearchComprehensionReversed(_, _)
SearchComprehensionReversed(data, acc) ==
    IF data = <<>> THEN [exc |-> "none", val |-> acc]
    ELSE LET r == Head(data)
         IN  IF ~IsDict(r) THEN [exc |-> "AttributeError", val |-> <<>>]
             ELSE IF KeepsHit(r)
             THEN SearchComprehensionReversed(Tail(data),
                      <<Descriptor(DictGet(r, "url"),
                                   DictGetDefault(r, "title", PyStr(UnknownSource)))>> \o acc)
             ELSE SearchComprehensionReversed(Tail(data), acc)

\* the list comprehension of lines 123-127.  [exc, val]
RECURSIVE SearchComprehension(_, _)
SearchComprehension(data, acc) ==
    IF data = <<>> THEN [exc |-> "none", val |-> acc]
    ELSE LET r == Head(data)
         IN  IF ~IsDict(r) THEN [exc |-> "AttributeError", val |-> <<>>]   \* r.get
             ELSE IF KeepsHit(r)
             THEN SearchComprehension(Tail(data),
                      Append(acc, Descriptor(DictGet(r, "url"),
                                             DictGetDefault(r, "title", PyStr(UnknownSource)))))
             ELSE SearchComprehension(Tail(data), acc)

\* the try block of lines 116-132.  [exc, val]
SearchTry(resp) ==
    IF ReplyException(resp) # "none" THEN [exc |-> ReplyException(resp), val |-> <<>>]
    ELSE LET search_results == resp.body
         IN  IF ~Truthy(search_results) THEN [exc |-> "none", val |-> <<>>]
             ELSE IF ~IsDict(search_results)
             THEN [exc |-> "AttributeError", val |-> <<>>]     \* search_results.get
             ELSE IF IsList(DictGet(search_results, "data"))
             THEN SearchComprehension(DictGet(search_results, "data").v, <<>>)
             ELSE [exc |-> "none", val |-> <<>>]

\* a handler that lets the exception through
SearchExceptReraise(r) == r

\* except RequestException / except Exception: return []
SearchExcept(r) == IF r.exc # "none" THEN [exc |-> "none", val |-> <<>>] ELSE r

_search_for_review_pages(resp) == SearchExcept(SearchTry(resp))

\* ------------------------------------------------------------------------
\* _scrape_reviews_from_page
\* ------------------------------------------------------------------------
\* a record whose text is copied as it came
FullReviewUnstripped(review_data, page_url) ==
    [source_name |-> IF Truthy(DictGet(review_data, "reviewer_name"))
                     THEN DictGet(review_data, "reviewer_name")
                     ELSE PyStr(_get_domain_name(page_url)),
     review_text |-> Item(review_data, "review_text"),
     original_score |-> DictGet(review_data, "original_score"),
     review_url |-> page_url]

\* the dict of lines 201-207
FullReview(review_data, page_url) ==
    [source_name |-> IF Truthy(DictGet(review_data, "reviewer_name"))
                     THEN DictGet(review_data, "reviewer_name")
                     ELSE PyStr(_get_domain_name(page_url)),
     review_text |-> PyStr(Strip(Item(review_data, "review_text").v)),
     original_score |-> DictGet(review_data, "original_score"),
     review_url |-> page_url]

\* the condition of line 200
AcceptsRaw(review_data) == IsDict(review_data) /\ Truthy(DictGet(review_data, "review_text"))

\* the for loop of lines 199-212 over the already sliced list.  [exc, val]:
\* val is page_reviews when the loop ends or when the exception is raised
RECURSIVE ScrapeLoop(_, _, _)
ScrapeLoop(items, page_url, page_reviews) ==
    IF items = <<>> THEN [exc |-> "none", val |-> page_reviews]
    ELSE LET review_data == Head(items)
         IN  IF AcceptsRaw(review_data)
             THEN IF ~IsStr(Item(review_data, "review_text"))
                  THEN [exc |-> "AttributeError", val |-> page_reviews]   \* .strip()
                  ELSE ScrapeLoop(Tail(items), page_url,
                                  Append(page_reviews, FullReview(review_data, page_url)))
             ELSE ScrapeLoop(Tail(items), page_url, page_reviews)

\* lines 176-192: the raw record list, None when no known key holds a list.
\* [exc, val]
ExtractedData(scraped_page_data) ==
    IF ~Truthy(scraped_page_data) THEN [exc |-> "none", val |-> PyNone]
    ELSE IF ~IsDict(scraped_page_data)
    THEN [exc |-> "AttributeError", val |-> PyNone]            \* scraped_page_data.get
    ELSE LET data == DictGet(scraped_page_data, "data")
         IN  IF IsDict(data) /\ IsList(DictGet(data, "llm_extraction"))
             THEN [exc |-> "none", val |-> DictGet(data, "llm_extraction")]
             ELSE IF IsDict(data) /\ IsList(DictGet(data, "extracted_data"))
             THEN [exc |-> "none", val |-> DictGet(data, "extracted_data")]
             ELSE [exc |-> "none", val |-> PyNone]

\* a loop over the whole raw list
SliceRawAll(extracted_data, max_reviews_per_site) == extracted_data

\* the records the loop of line 199 iterates over
SliceRaw(extracted_data, max_reviews_per_site) == Slice(extracted_data, max_reviews_per_site)

\* the try block of lines 172-216.  [exc, val]
ScrapeTry(page_url, max_reviews_per_site, resp) ==
    IF ReplyException(resp) # "none" THEN [exc |-> ReplyException(resp), val |-> <<>>]
    ELSE LET extracted == ExtractedData(resp.body)
         IN  IF extracted.exc # "none" THEN [exc |-> extracted.exc, val |-> <<>>]
             ELSE IF Truthy(extracted.val)
             THEN ScrapeLoop(SliceRaw(extracted.val.v, max_reviews_per_site), page_url, <<>>)
             ELSE [exc |-> "none", val |-> <<>>]

\* a handler that lets the exception through
ScrapeExceptReraise(r) == r

\* except RequestException / except Exception: log; then line 228 returns
\* page_reviews as it stands
ScrapeExcept(r) == [exc |-> "none", val |-> r.val]

_scrape_reviews_from_page(page_url, max_reviews_per_site, resp) ==
    ScrapeExcept(ScrapeTry(page_url, max_reviews_per_site, resp))

\* ------------------------------------------------------------------------
\* JustWatchScraper (backend/data_collection/justwatch_scraper.py)
\* ------------------------------------------------------------------------
\* self.base_url, and its scheme and host
BaseUrl ==
    <<"h", "t", "t", "p", "s", ":", "/", "/", "w", "w", "w", ".", "j", "u",
      "s", "t", "w", "a", "t", "c", "h", ".", "c", "o", "m", "/", "u", "s">>
BaseOrigin == SubSeq(BaseUrl, 1, Len(BaseUrl) - 3)

\* urljoin(self.base_url, u) for a reference u that is empty, a path that
\* starts with "/", or a relative path without dot segments, query or scheme:
\* the relative path replaces the last segment ("us") of the base
UrlJoin(u) ==
    IF u = <<>> THEN BaseUrl
    ELSE IF Head(u) = "/" THEN BaseOrigin \o u
    ELSE BaseOrigin \o <<"/">> \o u

\* a merge in which the values of a win on shared keys
DictMergeListingWins(a, b) ==
    PyDict(a.v \o SelectSeq(b.v, LAMBDA pair : ~HasKey(a, pair[1])))

\* {**a, **b}: the keys of a in their order, with the value of b where b has
\* the key, then the keys that only b has
DictMerge(a, b) ==
    PyDict([i \in 1..Len(a.v) |->
               IF HasKey(b, a.v[i][1]) THEN <<a.v[i][1], Item(b, a.v[i][1])>> ELSE a.v[i]]
           \o SelectSeq(b.v, LAMBDA pair : ~HasKey(a, pair[1])))

\* _get_detailed_content (lines 208-235): the dict returned for a reply; the
\* call has no raise_for_status, and every exception gives {}
DetailedContent(resp) ==
    IF resp.status # "ok" THEN PyDict(<<>>)
    ELSE IF ~IsDict(resp.body) THEN PyDict(<<>>)                   \* result.get
    ELSE IF ~Truthy(DictGet(resp.body, "success")) THEN PyDict(<<>>)
    ELSE IF ~IsDict(DictGetDefault(resp.body, "data", PyDict(<<>>))) THEN PyDict(<<>>)
    ELSE LET json == DictGet(DictGetDefault(resp.body, "data", PyDict(<<>>)), "json")
         IN  IF ~Truthy(json) THEN PyDict(<<>>)
             ELSE IF ~IsDict(json) THEN PyDict(<<>>)               \* extracted_data.get
             ELSE json

\* the number of items test mode keeps
TestModeItems == 2

\* a run that keeps the whole listing in test mode
ItemsToProcessAll(items, test_mode) == items

\* lines 306-307
ItemsToProcess(items, test_mode) == IF test_mode THEN Slice(items, TestModeItems) ELSE items

\* lines 294-307: the items the loop runs over.  [exc, found, val]; found is
\* FALSE when line 300 returns []
ListingTry(resp, test_mode) ==
    LET raise(e) == [exc |-> e, found |-> FALSE, val |-> <<>>]
        nothing == [exc |-> "none", found |-> FALSE, val |-> <<>>]
    IN  IF resp.status # "ok" THEN raise(ReplyException(resp))
        ELSE IF ~IsDict(resp.body) THEN raise("AttributeError")            \* result.get
        ELSE IF ~Truthy(DictGet(resp.body, "success")) THEN nothing
        ELSE LET data == DictGetDefault(resp.body, "data", PyDict(<<>>))
             IN  IF ~IsDict(data) THEN raise("AttributeError")
                 ELSE LET json == DictGetDefault(data, "json", PyDict(<<>>))
                      IN  IF ~IsDict(json) THEN raise("AttributeError")
                          ELSE LET items == DictGet(json, "items")
                               IN  IF ~Truthy(items) THEN nothing
                                   ELSE IF ~IsList(items) THEN raise("TypeError")
                                   ELSE [exc |-> "none", found |-> TRUE,
                                         val |-> ItemsToProcess(items.v, test_mode)]

\* lines 316-338 for one item.  [exc, asked, val]: asked holds the URL of the
\* detail request when one is made, val the entry appended
ItemTry(item, detail_reply) ==
    LET raise(e, asked) == [exc |-> e, asked |-> asked, val |-> PyNone]
    IN  IF ~IsDict(item) THEN raise("TypeError", <<>>)                     \* item['title']
        ELSE IF ~HasKey(item, "title") THEN raise("KeyError", <<>>)
        ELSE IF ~HasKey(item, "detailUrl")
        THEN [exc |-> "none", asked |-> <<>>, val |-> item]
        ELSE IF ~IsStr(Item(item, "detailUrl"))
        THEN raise("AttributeError", <<>>)                                 \* .startswith
        ELSE LET u == Item(item, "detailUrl").v
                 detail_url == IF StartsWith(u, <<"h", "t", "t", "p">>) THEN u ELSE UrlJoin(u)
                 detailed_info == DetailedContent(detail_reply)
             IN  [exc |-> "none", asked |-> <<detail_url>>,
                  val |-> IF Truthy(detailed_info) THEN DictMerge(item, detailed_info)
                          ELSE item]

\* a handler that returns what was processed before the exception
ReleasesExceptPartial(r) == [exc |-> "none", val |-> r.val]

\* lines 344-347: except Exception: return []
ReleasesExcept(r) == IF r.exc # "none" THEN [exc |-> "none", val |-> <<>>] ELSE r

\* ------------------------------------------------------------------------
\* Inputs: what the search and the extraction service may answer
\* ------------------------------------------------------------------------
\* all sequences over S of length 0..n
SeqsUpTo(S, n) == UNION {[1..m -> S] : m \in 0..n}

Str_x == PyStr(<<"x">>)
UrlPlain == PyStr(HTTP \o <<"a", ".", "c", "/", "r">>)      \* "http://a.c/r"
UrlWwwOnly == PyStr(HTTP \o WWW)                            \* "http://www."
UrlBare == PyStr(<<"b", ".", "c">>)                         \* "b.c"
UrlNoDot == PyStr(<<"b", "c">>)                             \* "bc"
UrlBracket == PyStr(HTTP \o <<"[", "a">>)                   \* "http://[a"
Title == PyStr(<<"T">>)

\* elements of the search result list
HitPlain == PyDict(<<<<"url", UrlPlain>>, <<"title", Title>>>>)
HitWwwOnly == PyDict(<<<<"url", UrlWwwOnly>>>>)
HitNoUrl == PyDict(<<<<"title", Title>>>>)
HitEmptyUrl == PyDict(<<<<"url", PyStr(<<>>)>>, <<"title", Title>>>>)
HitNumUrl == PyDict(<<<<"url", PyNum(7)>>>>)

SearchData(l) == PyDict(<<<<"data", PyList(l)>>>>)

\* bodies that are no object with a list under "data"
OddSearchBodies ==
    {PyNone, PyDict(<<>>), PyNum(1), PyList(<<HitPlain>>),
     PyDict(<<<<"data", PyNone>>>>),
     PyDict(<<<<"data", HitPlain>>>>),
     PyDict(<<<<"results", PyList(<<HitPlain>>)>>>>)}

\* the search replies a fetch_reviews_for_item call is run against
SearchReplies ==
    {Reply(st, PyNone) : st \in FailedStatuses}
    \cup {OkReply(b) : b \in OddSearchBodies}
    \cup {OkReply(SearchData(l)) : l \in SeqsUpTo({HitPlain, HitNoUrl}, MaxHits)}
    \cup {OkReply(SearchData(l)) : l \in {<<HitWwwOnly>>, <<HitPlain, HitWwwOnly>>,
                                          <<HitEmptyUrl>>, <<HitPlain, Str_x>>,
                                          <<HitNumUrl, HitPlain>>}}

\* the search replies _search_for_review_pages alone is run against
HitKinds == {HitPlain, HitWwwOnly, HitNoUrl, HitEmptyUrl, Str_x, PyNone}
AllSearchReplies ==
    SearchReplies \cup {OkReply(SearchData(l)) : l \in SeqsUpTo(HitKinds, MaxHits)}

\* raw review records
RawNamed == PyDict(<<<<"reviewer_name", PyStr(<<"N">>)>>,
                     <<"review_text", PyStr(<<" ", "a", " ">>)>>,
                     <<"original_score", PyStr(<<"8">>)>>>>)
RawAnon == PyDict(<<<<"review_text", PyStr(<<"b">>)>>, <<"reviewer_name", PyNone>>>>)
RawBlank == PyDict(<<<<"review_text", PyStr(<<" ", " ">>)>>>>)
RawNoText == PyDict(<<<<"reviewer_name", PyStr(<<"N">>)>>>>)
RawEmptyText == PyDict(<<<<"review_text", PyStr(<<>>)>>>>)
RawNumText == PyDict(<<<<"review_text", PyNum(5)>>>>)
RawPadded == PyDict(<<<<"reviewer_name", PyStr(<<>>)>>,
                      <<"review_text", PyStr(<<" ", "b", " ">>)>>>>)

ExtractionOf(l) == PyDict(<<<<"data", PyDict(<<<<"llm_extraction", PyList(l)>>>>)>>>>)

\* bodies that do not hold a list under data.llm_extraction alone
OddScrapeBodies ==
    {PyNone, PyDict(<<>>), PyNum(1), PyList(<<RawNamed>>),
     PyDict(<<<<"data", PyNone>>>>),
     PyDict(<<<<"data", PyDict(<<>>)>>>>),
     PyDict(<<<<"data", PyList(<<RawNamed>>)>>>>),
     PyDict(<<<<"data", PyDict(<<<<"llm_extraction", RawNamed>>>>)>>>>),
     PyDict(<<<<"data", PyDict(<<<<"extracted_data", PyList(<<RawNamed>>)>>>>)>>>>),
     PyDict(<<<<"data", PyDict(<<<<"llm_extraction", PyList(<<>>)>>,
                                 <<"extracted_data", PyList(<<RawNamed>>)>>>>)>>>>)}

\* the extraction replies a fetch_reviews_for_item call is run against
ScrapeReplies ==
    {Reply(st, PyNone) : st \in FailedStatuses}
    \cup {OkReply(b) : b \in OddScrapeBodies}
    \cup {OkReply(ExtractionOf(l)) : l \in SeqsUpTo({RawNamed, RawNoText}, MaxRaw)}
    \cup {OkReply(ExtractionOf(l)) : l \in {<<RawAnon>>, <<RawBlank>>, <<RawNamed, RawBlank>>,
                                            <<RawNumText>>, <<RawAnon, RawNumText>>,
                                            <<Str_x, RawAnon>>, <<RawEmptyText>>}}

\* the extraction replies _scrape_reviews_from_page alone is run against
RawKinds == {RawNamed, RawAnon, RawBlank, RawNoText, RawEmptyText, RawNumText, RawPadded,
             Str_x}
AllScrapeReplies ==
    ScrapeReplies \cup {OkReply(ExtractionOf(l)) : l \in SeqsUpTo(RawKinds, MaxRaw)}

\* the arguments of a search: titles and detail URLs of items
ItemTitles == {<<"T">>, Series}
DetailUrls ==
    {<<"/", "m", "o", "v", "i", "e", "/", "x">>,
     <<"/", "t", "v", "-", "s", "h", "o", "w", "/", "x">>,
     <<"/", "T", "V", "-", "s", "h", "o", "w", "/", "x">>,
     <<"/", "s", "e", "r", "i", "e", "s">>,
     <<"/", "S", "e", "R", "i", "E", "s">>,
     <<"/", "s", "e", "r", "i", "e", "-", "s">>}

\* the arguments of _get_domain_name: a prefix followed by up to MaxParts pieces
UrlPrefixes == {<<>>, HTTP, HTTPS, FTP, <<"H", "t", "t", "p", ":", "/", "/">>}
UrlParts == {WWW, <<"a">>, DOT, <<"/">>, <<":", "8">>, <<"[">>}

RECURSIVE Flatten(_)
Flatten(ss) == IF ss = <<>> THEN <<>> ELSE Head(ss) \o Flatten(Tail(ss))

DomainUrls ==
    {PyStr(p \o Flatten(parts)) : p \in UrlPrefixes, parts \in SeqsUpTo(UrlParts, MaxParts)}
    \cup {PyNone, PyList(<<>>)}

PageUrls == {UrlPlain, UrlWwwOnly, UrlBare, UrlNoDot, UrlBracket, PyNum(7)}

Limits == 1..MaxLimit

\* items of the new-releases listing
ItemA == PyDict(<<<<"title", PyStr(<<"A">>)>>,
                  <<"detailUrl", PyStr(<<"/", "u", "s", "/", "a">>)>>>>)
ItemB == PyDict(<<<<"title", PyStr(<<"B">>)>>,
                  <<"detailUrl", PyStr(<<"h", "t", "t", "p", ":", "/", "/", "b">>)>>,
                  <<"genres", PyList(<<>>)>>>>)
ItemRelative == PyDict(<<<<"title", PyStr(<<"R">>)>>, <<"detailUrl", PyStr(<<"r">>)>>>>)
ItemNoUrl == PyDict(<<<<"title", PyStr(<<"C">>)>>>>)
ItemNoTitle == PyDict(<<<<"detailUrl", PyStr(<<"/", "u", "s", "/", "a">>)>>>>)
ItemNumUrl == PyDict(<<<<"title", PyStr(<<"D">>)>>, <<"detailUrl", PyNum(7)>>>>)

ListingOf(l) ==
    PyDict(<<<<"success", PyNum(1)>>,
             <<"data", PyDict(<<<<"json", PyDict(<<<<"items", PyList(l)>>>>)>>>>)>>>>)

\* bodies that hold no item list, or no success
OddListingBodies ==
    {PyNone, PyDict(<<>>), PyList(<<ItemA>>),
     PyDict(<<<<"success", PyNum(0)>>,
              <<"data", PyDict(<<<<"json", PyDict(<<<<"items", PyList(<<ItemA>>)>>>>)>>>>)>>>>),
     PyDict(<<<<"success", PyNum(1)>>>>),
     PyDict(<<<<"success", PyNum(1)>>, <<"data", PyNone>>>>),
     PyDict(<<<<"success", PyNum(1)>>, <<"data", PyDict(<<<<"json", PyNone>>>>)>>>>),
     PyDict(<<<<"success", PyNum(1)>>,
              <<"data", PyDict(<<<<"json", PyDict(<<<<"items", PyNum(3)>>>>)>>>>)>>>>)}

\* the replies to the listing request; the call has no raise_for_status
ListingReplies ==
    {Reply(st, PyNone) : st \in {"transport", "bad_json"}}
    \cup {OkReply(b) : b \in OddListingBodies}
    \cup {OkReply(ListingOf(l)) : l \in SeqsUpTo({ItemA, ItemNoUrl, ItemNoTitle}, MaxItems)}
    \cup {OkReply(ListingOf(l)) : l \in {<<ItemB, ItemRelative>>, <<ItemA, ItemNumUrl>>,
                                         <<ItemNoUrl, Str_x>>, <<ItemRelative, ItemB, ItemA>>}}

\* the detail fields of a page
DetailJson == PyDict(<<<<"title", PyStr(<<"A", "2">>)>>, <<"genres", PyList(<<Str_x>>)>>,
                       <<"synopsis", Str_x>>>>)
DetailOf(json) == PyDict(<<<<"success", PyNum(1)>>, <<"data", PyDict(<<<<"json", json>>>>)>>>>)

\* the replies to a detail request
DetailReplies ==
    {Reply("transport", PyNone), OkReply(DetailOf(DetailJson)), OkReply(DetailOf(Str_x)),
     OkReply(DetailOf(PyDict(<<>>))), OkReply(PyDict(<<<<"success", PyNum(0)>>>>))}

\* why an extraction reply holds no record list: the status of a failed call,
\* "shape" for a body without a list under a known key, "none" otherwise
ReplyFault(resp) ==
    IF resp.status \in FailedStatuses THEN resp.status
    ELSE IF ExtractedData(resp.body).exc # "none" \/ ~IsList(ExtractedData(resp.body).val)
    THEN "shape"
    ELSE "none"

\* ------------------------------------------------------------------------
\* fetch_reviews_for_item as a state machine
\* ------------------------------------------------------------------------
VARIABLES
    pc,                             \* "idle", "loop", "done", "raised"
    max_search_results_to_process,  \* argument
    max_reviews_per_site,           \* argument
    max_total_reviews,              \* config: scraping.max_total_reviews_per_item
    search_reply,                   \* what the search service answered in this call
    search_results,                 \* line 247
    idx,                            \* position of the for loop of line 288
    collected_reviews,              \* line 287
    scrape_log,                     \* the extraction calls made in this call
    returned,                       \* the value returned
    probe                           \* one call of a helper on its own

aggVars == <<pc, max_search_results_to_process, max_reviews_per_site, max_total_reviews,
             search_reply, search_results, idx, collected_reviews, scrape_log, returned>>

vars == <<aggVars, probe>>

NoReply == Reply("none", PyNone)
NoProbe == [fn |-> "none"]

Idle ==
    /\ pc = "idle"
    /\ max_search_results_to_process = 1
    /\ max_reviews_per_site = 1
    /\ max_total_reviews = 1
    /\ search_reply = NoReply
    /\ search_results = <<>>
    /\ idx = 0
    /\ collected_reviews = <<>>
    /\ scrape_log = <<>>
    /\ returned = <<>>

Init == Idle /\ probe = NoProbe

\* a loop over every search result
ToProcessAll == search_results

\* a loop that takes the descriptors last to first
ToProcessReversed ==
    LET t == SubSeq(search_results, 1,
                    IF max_search_results_to_process <= Len(search_results)
                    THEN max_search_results_to_process ELSE Len(search_results))
    IN  [i \in 1..Len(t) |-> t[Len(t) + 1 - i]]

\* a loop that goes on until max_search_results_to_process descriptors with a
\* URL were met
ToProcessUsable ==
    LET usable(n) == Cardinality({p \in 1..n : Truthy(search_results[p].url)})
        ends == {n \in 0..Len(search_results) :
                    usable(n) <= max_search_results_to_process
                    /\ (n < Len(search_results) =>
                           (usable(n) < max_search_results_to_process
                            \/ ~Truthy(search_results[n + 1].url)))}
    IN  SubSeq(search_results, 1, CHOOSE n \in ends : \A m \in ends : m <= n)

\* the descriptors the for loop of line 288 iterates over
ToProcess == Slice(search_results, max_search_results_to_process)

\* an inner loop that takes a page whole or not at all
AppendIfFits(collected, reviews, cap) ==
    IF Len(collected) + Len(reviews) <= cap THEN collected \o reviews ELSE collected

\* an inner loop without the check of line 312
AppendAll(collected, reviews, cap) == collected \o reviews

\* lines 311-315: append until the global cap is reached
RECURSIVE AppendUpToCap(_, _, _)
AppendUpToCap(collected, reviews, cap) ==
    IF reviews = <<>> THEN collected
    ELSE IF Len(collected) < cap
    THEN AppendUpToCap(Append(collected, Head(reviews)), Tail(reviews), cap)
    ELSE collected

\* a loop that is left one record before the cap
CapReachedEarly(collected, cap) == Len(collected) + 1 >= cap

\* a loop without the check of line 289
CapNeverReached(collected, cap) == FALSE

\* line 289
CapReached(collected, cap) == Len(collected) >= cap

\* an accumulator that is what the call before left
StaleAccumulator == collected_reviews

\* line 287: collected_reviews = []
FreshAccumulator == <<>>

\* a loop that extracts whatever the descriptor holds as a URL
SkipsUrlNever(page_url) == FALSE

\* line 298: if not page_url
SkipsUrl(page_url) == ~Truthy(page_url)

\* lines 241-255 and 287: the call starts, found is what the search returned,
\* an empty search ends the call
FetchWith(maxProcess, maxPerSite, maxTotal, resp, found) ==
    /\ pc = "idle"
    /\ max_search_results_to_process' = maxProcess
    /\ max_reviews_per_site' = maxPerSite
    /\ max_total_reviews' = maxTotal
    /\ search_reply' = resp
    /\ search_results' = found.val
    /\ pc' = IF found.exc # "none" THEN "raised"
             ELSE IF found.val = <<>> THEN "done" ELSE "loop"
    /\ idx' = IF found.exc = "none" /\ found.val # <<>> THEN 1 ELSE 0
    /\ collected_reviews' = FreshAccumulator
    /\ scrape_log' = <<>>
    /\ returned' = <<>>

\* the call with the search of line 247 made against the search service
FetchStart(maxProcess, maxPerSite, maxTotal, resp) ==
    FetchWith(maxProcess, maxPerSite, maxTotal, resp, _search_for_review_pages(resp))

Invoke(maxProcess, maxPerSite, maxTotal, resp) ==
    /\ FetchStart(maxProcess, maxPerSite, maxTotal, resp)
    /\ UNCHANGED probe

\* lines 289-293 and 317-324: the cap is reached, the loop is left
BreakAtCap ==
    /\ pc = "loop"
    /\ idx <= Len(ToProcess)
    /\ CapReached(collected_reviews, max_total_reviews)
    /\ pc' = "done"
    /\ returned' = collected_reviews
    /\ UNCHANGED <<max_search_results_to_process, max_reviews_per_site, max_total_reviews,
                   search_reply, search_results, idx, collected_reviews, scrape_log, probe>>

\* lines 295-315: one descriptor is skipped or scraped
ScrapeStep(resp) ==
    /\ pc = "loop"
    /\ idx <= Len(ToProcess)
    /\ ~CapReached(collected_reviews, max_total_reviews)
    /\ LET page_url == ToProcess[idx].url
       IN  IF SkipsUrl(page_url)
           THEN /\ pc' = "loop"
                /\ UNCHANGED <<collected_reviews, scrape_log>>
           ELSE LET scraped == _scrape_reviews_from_page(page_url, max_reviews_per_site, resp)
                IN  /\ scrape_log' = Append(scrape_log,
                                            [pos |-> idx, url |-> page_url,
                                             before |-> Len(collected_reviews),
                                             fault |-> ReplyFault(resp),
                                             got |-> Len(scraped.val),
                                             reviews |-> scraped.val])
                    /\ pc' = IF scraped.exc # "none" THEN "raised" ELSE "loop"
                    /\ collected_reviews' =
                           IF scraped.exc # "none" THEN collected_reviews
                           ELSE AppendUpToCap(collected_reviews, scraped.val, max_total_reviews)
    /\ idx' = idx + 1
    /\ UNCHANGED <<max_search_results_to_process, max_reviews_per_site, max_total_reviews,
                   search_reply, search_results, returned>>

ProcessResult(resp) ==
    /\ ScrapeStep(resp)
    /\ UNCHANGED probe

\* lines 317-324: the descriptors to process are exhausted
LoopExhausted ==
    /\ pc = "loop"
    /\ idx > Len(ToProcess)
    /\ pc' = "done"
    /\ returned' = collected_reviews
    /\ UNCHANGED <<max_search_results_to_process, max_reviews_per_site, max_total_reviews,
                   search_reply, search_results, idx, collected_reviews, scrape_log, probe>>

\* the call is over and nothing of it is kept: all its data are locals
Forget ==
    /\ pc = "done"
    /\ pc' = "idle"
    /\ max_search_results_to_process' = 1
    /\ max_reviews_per_site' = 1
    /\ max_total_reviews' = 1
    /\ search_reply' = NoReply
    /\ search_results' = <<>>
    /\ idx' = 0
    /\ collected_reviews' = <<>>
    /\ scrape_log' = <<>>
    /\ returned' = <<>>
    /\ UNCHANGED probe

Next ==
    \/ \E a \in Limits, b \in Limits, c \in Limits, resp \in SearchReplies : Invoke(a, b, c, resp)
    \/ BreakAtCap
    \/ \E resp \in ScrapeReplies : ProcessResult(resp)
    \/ LoopExhausted
    \/ Forget

Spec == Init /\ [][Next]_vars

\* a call that has started goes on: the function is sequential code, and each
\* request of it is answered or fails
Proceeds == BreakAtCap \/ LoopExhausted \/ \E resp \in ScrapeReplies : ProcessResult(resp)

SpecFair == Spec /\ WF_vars(Proceeds)

\* ------------------------------------------------------------------------
\* _search_for_review_pages and _scrape_reviews_from_page called on their own
\* ------------------------------------------------------------------------
Pending == [exc |-> "pending", val |-> <<>>]

NoPayload == [query |-> <<>>, limit |-> 0]

SearchInit ==
    /\ Idle
    /\ \E t \in ItemTitles, u \in DetailUrls, n \in Limits, resp \in AllSearchReplies :
           probe = [fn |-> "search", item_title |-> t, item_detail_url |-> u,
                    search_limit |-> n, sent |-> NoPayload, reply |-> resp, out |-> Pending]

SearchCall ==
    /\ probe.fn = "search"
    /\ probe.out = Pending
    /\ probe' = [probe EXCEPT
                     !.sent = SearchPayload(probe.item_title, probe.item_detail_url,
                                            probe.search_limit),
                     !.out = _search_for_review_pages(probe.reply)]
    /\ UNCHANGED aggVars

SearchNext == SearchCall

SpecSearch == SearchInit /\ [][SearchNext]_vars

ScrapeInit ==
    /\ Idle
    /\ \E u \in PageUrls, m \in Limits, resp \in AllScrapeReplies :
           probe = [fn |-> "scrape", page_url |-> u, max_reviews_per_site |-> m,
                    reply |-> resp, out |-> Pending]

ScrapeCall ==
    /\ probe.fn = "scrape"
    /\ probe.out = Pending
    /\ probe' = [probe EXCEPT !.out = _scrape_reviews_from_page(probe.page_url,
                                          probe.max_reviews_per_site, probe.reply)]
    /\ UNCHANGED aggVars

ScrapeNext == ScrapeCall

SpecScrape == ScrapeInit /\ [][ScrapeNext]_vars

DomainInit ==
    /\ Idle
    /\ \E u \in DomainUrls : probe = [fn |-> "domain", url |-> u, out |-> Pending]

DomainCall ==
    /\ probe.fn = "domain"
    /\ probe.out = Pending
    /\ probe' = [probe EXCEPT !.out = GetDomainNameCall(probe.url)]
    /\ UNCHANGED aggVars

DomainNext == DomainCall

SpecDomain == DomainInit /\ [][DomainNext]_vars

\* ------------------------------------------------------------------------
\* fetch_reviews_for_item called twice in one process: the second call is given
\* the arguments, the configuration and the replies of the first.  Between the
\* calls nothing is cleared: what the first call left is there for the second
\* to read, were it to read it.  probe holds
\*   call     0 before the first call, then 1, then 2
\*   args     the arguments and the configured cap of the first call
\*   search   the search reply of the first call
\*   scrapes  the extraction replies of the first call, in order
\*   used     the number of them the second call has consumed
\*   first    what the first call returned
\* ------------------------------------------------------------------------
ReplaySearchReplies ==
    {Reply("transport", PyNone)}
    \cup {OkReply(SearchData(l)) : l \in SeqsUpTo({HitPlain}, MaxHits)}

ReplayScrapeReplies ==
    {Reply("transport", PyNone), OkReply(ExtractionOf(<<RawNamed>>)),
     OkReply(ExtractionOf(<<RawAnon, RawNamed>>))}

ReplayInit ==
    /\ Idle
    /\ probe = [fn |-> "replay", call |-> 0, args |-> <<1, 1, 1>>, search |-> NoReply,
                scrapes |-> <<>>, used |-> 0, first |-> <<>>]

FirstInvoke(maxProcess, maxPerSite, maxTotal, resp) ==
    /\ probe.fn = "replay"
    /\ probe.call = 0
    /\ FetchStart(maxProcess, maxPerSite, maxTotal, resp)
    /\ probe' = [probe EXCEPT !.call = 1, !.args = <<maxProcess, maxPerSite, maxTotal>>,
                              !.search = resp]

FirstProcessResult(resp) ==
    /\ probe.fn = "replay"
    /\ probe.call = 1
    /\ ScrapeStep(resp)
    /\ probe' = [probe EXCEPT !.scrapes = Append(probe.scrapes, resp)]

\* the first call has returned; its result is noted and nothing is cleared
CallAgain ==
    /\ probe.fn = "replay"
    /\ probe.call = 1
    /\ pc = "done"
    /\ pc' = "idle"
    /\ probe' = [probe EXCEPT !.call = 2, !.first = returned]
    /\ UNCHANGED <<max_search_results_to_process, max_reviews_per_site, max_total_reviews,
                   search_reply, search_results, idx, collected_reviews, scrape_log, returned>>

SecondInvoke ==
    /\ probe.fn = "replay"
    /\ probe.call = 2
    /\ FetchStart(probe.args[1], probe.args[2], probe.args[3], probe.search)
    /\ UNCHANGED probe

SecondProcessResult ==
    /\ probe.fn = "replay"
    /\ probe.call = 2
    /\ probe.used < Len(probe.scrapes)
    /\ ScrapeStep(probe.scrapes[probe.used + 1])
    /\ probe' = [probe EXCEPT !.used = probe.used + 1]

ReplayNext ==
    \/ \E a \in Limits, b \in Limits, c \in Limits, resp \in ReplaySearchReplies :
           FirstInvoke(a, b, c, resp)
    \/ \E resp \in ReplayScrapeReplies : FirstProcessResult(resp)
    \/ CallAgain
    \/ SecondInvoke
    \/ SecondProcessResult
    \/ BreakAtCap
    \/ LoopExhausted

SpecReplay == ReplayInit /\ [][ReplayNext]_vars

\* ------------------------------------------------------------------------
\* fetch_reviews_for_item with the configuration it loads (lines 241-243).
\* probe holds the configuration and the searches made: the limit sent and the
\* number of extraction calls made before
\* ------------------------------------------------------------------------
DefaultSearchLimit == 5
DefaultMaxTotal == 5

ScrapingConfig(pairs) == PyDict(<<<<"scraping", PyDict(pairs)>>>>)

Configs ==
    {PyDict(<<>>), ScrapingConfig(<<>>)}
    \cup {ScrapingConfig(<<<<"review_search_limit", PyNum(n)>>>>) : n \in Limits}
    \cup {ScrapingConfig(<<<<"max_total_reviews_per_item", PyNum(m)>>>>) : m \in Limits}
    \cup {ScrapingConfig(<<<<"review_search_limit", PyNum(n)>>,
                            <<"max_total_reviews_per_item", PyNum(m)>>>>) :
              n \in Limits, m \in Limits}

\* config.get("scraping", {}).get(key, default) for a number
ConfigNumber(config, key, default) ==
    DictGetDefault(DictGetDefault(config, "scraping", PyDict(<<>>)), key, PyNum(default)).v[1]

\* a limit that is the default whatever the configuration says
SearchLimitDefaultOnly(config) == DefaultSearchLimit

\* line 242
SearchLimitOf(config) == ConfigNumber(config, "review_search_limit", DefaultSearchLimit)

\* line 243
MaxTotalOf(config) == ConfigNumber(config, "max_total_reviews_per_item", DefaultMaxTotal)

ConfiguredInit ==
    /\ Idle
    /\ probe = [fn |-> "configured", config |-> PyDict(<<>>), searches |-> <<>>]

\* lines 241-255 and 287
ConfiguredInvoke(config, maxProcess, maxPerSite, resp) ==
    /\ probe.fn = "configured"
    /\ probe.searches = <<>>
    /\ FetchStart(maxProcess, maxPerSite, MaxTotalOf(config), resp)
    /\ probe' = [probe EXCEPT
                     !.config = config,
                     !.searches = Append(probe.searches,
                                         [limit |-> SearchLimitOf(config),
                                          before |-> Len(scrape_log)])]

ConfiguredNext ==
    \/ \E config \in Configs, a \in Limits, b \in Limits, resp \in ReplaySearchReplies :
           ConfiguredInvoke(config, a, b, resp)
    \/ BreakAtCap
    \/ \E resp \in ReplayScrapeReplies : ProcessResult(resp)
    \/ LoopExhausted

SpecConfigured == ConfiguredInit /\ [][ConfiguredNext]_vars

\* ------------------------------------------------------------------------
\* fetch_reviews_for_item with _search_for_review_pages patched, as its unit
\* tests run it: the search returns any list of descriptors, also descriptors
\* without a URL
\* ------------------------------------------------------------------------
PatchedDescriptors ==
    {Descriptor(UrlPlain, Title), Descriptor(UrlBare, Title), Descriptor(PyNone, Title)}

PatchedSearchResults ==
    SeqsUpTo(PatchedDescriptors, MaxHits)
    \cup {<<Descriptor(PyStr(<<>>), Title)>>,
          <<Descriptor(PyStr(<<>>), Title), Descriptor(UrlPlain, Title)>>,
          <<Descriptor(UrlPlain, Title), Descriptor(PyStr(<<>>), Title)>>}

PatchedInvoke(maxProcess, maxPerSite, maxTotal, results) ==
    /\ FetchWith(maxProcess, maxPerSite, maxTotal, NoReply, [exc |-> "none", val |-> results])
    /\ UNCHANGED probe

PatchedNext ==
    \/ \E a \in Limits, b \in Limits, c \in Limits, results \in PatchedSearchResults :
           PatchedInvoke(a, b, c, results)
    \/ BreakAtCap
    \/ \E resp \in ReplayScrapeReplies : ProcessResult(resp)
    \/ LoopExhausted
    \/ Forget

SpecPatched == Init /\ [][PatchedNext]_vars

\* ------------------------------------------------------------------------
\* JustWatchScraper.get_new_releases as a state machine, held in probe:
\*   test_mode      self.test_mode
\*   listing        the reply to the listing request
\*   at             "start", "loop", "done"
\*   items          the items the loop runs over (lines 302-307)
\*   idx            position of the loop of line 315
\*   detailed_items line 313
\*   requests       the detail requests made: position, URL and the reply to it
\*   fault          the exception raised in the call, "none" when none was
\*   out            the value returned
\* ------------------------------------------------------------------------
ReleasesInit ==
    /\ Idle
    /\ \E t \in BOOLEAN, resp \in ListingReplies :
           probe = [fn |-> "releases", test_mode |-> t, listing |-> resp, at |-> "start",
                    items |-> <<>>, idx |-> 0, detailed_items |-> <<>>, requests |-> <<>>,
                    fault |-> "none", out |-> Pending]

\* lines 243-313: the listing is requested and read
RequestListing ==
    /\ probe.fn = "releases"
    /\ probe.at = "start"
    /\ LET listed == ListingTry(probe.listing, probe.test_mode)
       IN  probe' =
               IF listed.exc = "none" /\ listed.found
               THEN [probe EXCEPT !.at = "loop", !.items = listed.val, !.idx = 1]
               ELSE [probe EXCEPT !.at = "done", !.fault = listed.exc,
                                  !.out = ReleasesExcept([exc |-> listed.exc, val |-> <<>>])]
    /\ UNCHANGED aggVars

\* lines 315-339: one item is processed
ProcessItem(detail_reply) ==
    /\ probe.fn = "releases"
    /\ probe.at = "loop"
    /\ probe.idx <= Len(probe.items)
    /\ LET step == ItemTry(probe.items[probe.idx], detail_reply)
           asked == [i \in 1..Len(step.asked) |->
                        [pos |-> probe.idx, url |-> step.asked[i], reply |-> detail_reply]]
       IN  probe' =
               IF step.exc = "none"
               THEN [probe EXCEPT !.idx = probe.idx + 1,
                                  !.detailed_items = Append(probe.detailed_items, step.val),
                                  !.requests = probe.requests \o asked]
               ELSE [probe EXCEPT !.at = "done", !.fault = step.exc,
                                  !.requests = probe.requests \o asked,
                                  !.out = ReleasesExcept([exc |-> step.exc,
                                                          val |-> probe.detailed_items])]
    /\ UNCHANGED aggVars

\* lines 341-342: every item was processed
ReturnReleases ==
    /\ probe.fn = "releases"
    /\ probe.at = "loop"
    /\ probe.idx > Len(probe.items)
    /\ probe' = [probe EXCEPT !.at = "done",
                              !.out = [exc |-> "none", val |-> probe.detailed_items]]
    /\ UNCHANGED aggVars

ReleasesNext ==
    \/ RequestListing
    \/ \E detail_reply \in DetailReplies : ProcessItem(detail_reply)
    \/ ReturnReleases

SpecReleases == ReleasesInit /\ [][ReleasesNext]_vars

\* ------------------------------------------------------------------------
\* Properties
\* ------------------------------------------------------------------------
LogIndices == 1..Len(scrape_log)

\* C1: the accumulator and the returned list never hold more than
\* max_total_reviews_per_item records, at any point of the loop and for every
\* reply of the two services.
C1_CapNeverExceeded ==
    /\ Len(collected_reviews) <= max_total_reviews
    /\ Len(returned) <= max_total_reviews

\* a call has returned a full list after a page gave more than the remaining quota
C1_Witness ==
    /\ pc = "done"
    /\ Len(returned) = max_total_reviews
    /\ \E i \in LogIndices : scrape_log[i].before + scrape_log[i].got > max_total_reviews

\* s is non-empty and has no leading or trailing whitespace
Trimmed(s) == s # <<>> /\ Head(s) \notin Whitespace /\ s[Len(s)] \notin Whitespace

\* C2: every returned record has a review_text that is non-empty and has no
\* leading or trailing whitespace (a whitespace-only text is never emitted).
C2_ReviewTextNonEmptyTrimmed ==
    \A i \in 1..Len(returned) :
        IsStr(returned[i].review_text) /\ Trimmed(returned[i].review_text.v)

\* C3: every returned record has a source_name that is neither null nor empty.
C3_SourceNameNonEmpty ==
    \A i \in 1..Len(returned) : Truthy(returned[i].source_name)

\* the reply holds no result object with a URL: a failed call, a body that is no
\* object with a list under "data", or a list without any such result
NoUsableDescriptor(resp) ==
    \/ resp.status # "ok"
    \/ ~IsDict(resp.body)
    \/ ~IsList(DictGet(resp.body, "data"))
    \/ \A i \in 1..Len(DictGet(resp.body, "data").v) :
           LET r == DictGet(resp.body, "data").v[i]
           IN  ~IsDict(r) \/ ~Truthy(DictGet(r, "url"))

\* C4: when the search yields no usable descriptor the call returns at once
\* with an empty list and no extraction call is made.
C4_EmptySearchNoExtraction ==
    (pc # "idle" /\ NoUsableDescriptor(search_reply))
        => (pc = "done" /\ returned = <<>> /\ scrape_log = <<>>)

\* a call has ended on a non-empty result list none of whose results has a URL
C4_Witness ==
    /\ pc = "done"
    /\ search_reply.status = "ok"
    /\ IsDict(search_reply.body)
    /\ IsList(DictGet(search_reply.body, "data"))
    /\ Len(DictGet(search_reply.body, "data").v) >= 2
    /\ NoUsableDescriptor(search_reply)
    /\ returned = <<>>

\* C5: no extraction call is made for a descriptor at a position beyond
\* max_search_results_to_process.
C5_NoExtractionBeyondLimit ==
    \A i \in LogIndices : scrape_log[i].pos <= max_search_results_to_process

\* a call has ended below the cap with more descriptors than the limit, the
\* first max_search_results_to_process of them extracted
C5_Witness ==
    /\ pc = "done"
    /\ Len(search_results) > max_search_results_to_process
    /\ Len(scrape_log) = max_search_results_to_process
    /\ Len(returned) < max_total_reviews

\* C6: every extraction call is issued while the accumulated count is strictly
\* below max_total_reviews_per_item.
C6_NoExtractionAtCap ==
    \A i \in LogIndices : scrape_log[i].before < max_total_reviews

\* a call has ended at the cap with a descriptor left unprocessed
C6_Witness ==
    /\ pc = "done"
    /\ idx <= Len(ToProcess)
    /\ scrape_log # <<>>
    /\ Len(returned) = max_total_reviews

\* C7: the call never ends in an error, and when every extraction call of it
\* failed (or none was made because the search failed) it returns an empty list.
C7_FailuresGiveEmptyResult ==
    /\ pc # "raised"
    /\ (pc = "done" /\ \A i \in LogIndices : scrape_log[i].fault # "none")
           => returned = <<>>

\* a call has ended after two extraction calls that failed in different ways
C7_Witness ==
    /\ pc = "done"
    /\ Len(scrape_log) = 2
    /\ scrape_log[1].fault = "transport"
    /\ scrape_log[2].fault = "shape"
    /\ returned = <<>>

\* the reply is a failed call or has an unrecognized shape: no object with a
\* list under "data", or a list with an element that is no object
UnrecognizedSearchReply(resp) ==
    \/ resp.status # "ok"
    \/ ~IsDict(resp.body)
    \/ ~IsList(DictGet(resp.body, "data"))
    \/ \E i \in 1..Len(DictGet(resp.body, "data").v) :
           ~IsDict(DictGet(resp.body, "data").v[i])

\* C8: _search_for_review_pages never raises, and a failed call or a reply of
\* unrecognized shape gives an empty descriptor sequence.
C8_SearchNeverRaises ==
    (probe.fn = "search" /\ probe.out # Pending)
        => /\ probe.out.exc = "none"
           /\ UnrecognizedSearchReply(probe.reply) => probe.out.val = <<>>

\* the search has returned for a list whose usable result is followed by an
\* element that is no object
C8_Witness ==
    /\ probe.fn = "search"
    /\ probe.out # Pending
    /\ probe.reply.status = "ok"
    /\ IsDict(probe.reply.body)
    /\ IsList(DictGet(probe.reply.body, "data"))
    /\ LET data == DictGet(probe.reply.body, "data").v
       IN  \E i \in 1..Len(data), j \in 1..Len(data) :
               /\ i < j
               /\ IsDict(data[i]) /\ Truthy(DictGet(data[i], "url"))
               /\ ~IsDict(data[j])
    /\ probe.out.val = <<>>

\* C9: _scrape_reviews_from_page does not raise and returns an empty sequence
\* whenever an error occurs in the call or in interpreting the reply, also
\* when earlier records of the page were already accepted.
C9_ErrorGivesEmptyPage ==
    (/\ probe.fn = "scrape"
     /\ probe.out # Pending
     /\ ScrapeTry(probe.page_url, probe.max_reviews_per_site, probe.reply).exc # "none")
        => (probe.out.exc = "none" /\ probe.out.val = <<>>)

\* C10: the result of _scrape_reviews_from_page is the first
\* max_reviews_per_site valid records of the whole raw list.
C10_ValidateBeforeTruncate ==
    (/\ probe.fn = "scrape"
     /\ probe.out # Pending
     /\ probe.reply.status = "ok"
     /\ ExtractedData(probe.reply.body).exc = "none"
     /\ IsList(ExtractedData(probe.reply.body).val)
     /\ ScrapeLoop(ExtractedData(probe.reply.body).val.v, probe.page_url, <<>>).exc = "none")
        => probe.out.val =
               Slice(ScrapeLoop(ExtractedData(probe.reply.body).val.v, probe.page_url, <<>>).val,
                     probe.max_reviews_per_site)

\* the raw record list of a reply, <<>> when the reply holds none
RawList(resp) ==
    IF resp.status = "ok" /\ ExtractedData(resp.body).exc = "none"
           /\ IsList(ExtractedData(resp.body).val)
    THEN ExtractedData(resp.body).val.v
    ELSE <<>>

\* raw is a record with a text, and rec is the record built from it for the page
BuiltFrom(rec, raw, page_url) ==
    /\ IsDict(raw)
    /\ IsStr(DictGet(raw, "review_text"))
    /\ rec = [source_name |-> IF HasKey(raw, "reviewer_name")
                                    /\ Item(raw, "reviewer_name") \notin {PyNone, PyStr(<<>>)}
                              THEN Item(raw, "reviewer_name")
                              ELSE PyStr(_get_domain_name(page_url)),
              review_text |-> LET t == Item(raw, "review_text").v
                                  inner == {i \in 1..Len(t) : t[i] \notin Whitespace}
                              IN  PyStr(IF inner = {} THEN <<>>
                                        ELSE SubSeq(t, CHOOSE i \in inner : \A j \in inner : i <= j,
                                                       CHOOSE i \in inner : \A j \in inner : j <= i)),
              original_score |-> IF HasKey(raw, "original_score")
                                 THEN Item(raw, "original_score") ELSE PyNone,
              review_url |-> page_url]

\* the strictly increasing maps from 1..n into 1..m
Embeddings(n, m) == {f \in [1..n -> 1..m] : \A i \in 1..n, j \in 1..n : i < j => f[i] < f[j]}

\* C11: _scrape_reviews_from_page returns at most max_reviews_per_site records,
\* and they stand in the same relative order as the raw records they were built
\* from stand in the collaborator's list.
C11_AtMostLimitInRawOrder ==
    (probe.fn = "scrape" /\ probe.out # Pending)
        => /\ Len(probe.out.val) <= probe.max_reviews_per_site
           /\ \E f \in Embeddings(Len(probe.out.val), Len(RawList(probe.reply))) :
                  \A k \in 1..Len(probe.out.val) :
                      BuiltFrom(probe.out.val[k], RawList(probe.reply)[f[k]], probe.page_url)

\* a page with more raw records than the limit has given exactly the limit
C11_Witness ==
    /\ probe.fn = "scrape"
    /\ probe.out # Pending
    /\ Len(RawList(probe.reply)) > probe.max_reviews_per_site
    /\ Len(probe.out.val) = probe.max_reviews_per_site

\* C12: the k-th record emitted for page_url is built from the k-th usable raw
\* record: source_name is the raw reviewer_name when present and non-empty and
\* the domain of page_url otherwise, review_text is the raw text without its
\* surrounding whitespace, original_score is the raw score or null, review_url
\* is page_url.
C12_RecordBuiltFromRaw ==
    (probe.fn = "scrape" /\ probe.out # Pending)
        => LET raw == RawList(probe.reply)
               usable == {i \in 1..Len(raw) : AcceptsRaw(raw[i])}
           IN  \A k \in 1..Len(probe.out.val) :
                   \E i \in usable :
                       /\ Cardinality({j \in usable : j < i}) = k - 1
                       /\ BuiltFrom(probe.out.val[k], raw[i], probe.page_url)

\* a record with a padded text and no reviewer name was emitted for a page
\* whose URL has a domain
C12_Witness ==
    /\ probe.fn = "scrape"
    /\ probe.out # Pending
    /\ probe.page_url = UrlPlain
    /\ \E k \in 1..Len(probe.out.val) :
           /\ probe.out.val[k].source_name = PyStr(<<"a", ".", "c">>)
           /\ probe.out.val[k].review_text = PyStr(<<"b">>)
           /\ probe.out.val[k].original_score = PyNone
    /\ \E i \in 1..Len(RawList(probe.reply)) : RawList(probe.reply)[i] = RawPadded

\* the sequence of result objects a reply holds: the body itself, else its data
\* field, else its results field; <<>> when none of them is a sequence
ResultSequence(resp) ==
    IF resp.status # "ok" THEN <<>>
    ELSE IF IsList(resp.body) THEN resp.body.v
    ELSE IF IsDict(resp.body) /\ IsList(DictGet(resp.body, "data"))
    THEN DictGet(resp.body, "data").v
    ELSE IF IsDict(resp.body) /\ IsList(DictGet(resp.body, "results"))
    THEN DictGet(resp.body, "results").v
    ELSE <<>>

AllResultObjects(l) == \A i \in 1..Len(l) : IsDict(l[i])

\* the reply is an object whose data field is a sequence of result objects
DataShaped(resp) ==
    /\ resp.status = "ok"
    /\ IsDict(resp.body)
    /\ IsList(DictGet(resp.body, "data"))
    /\ AllResultObjects(DictGet(resp.body, "data").v)

\* the positions of l that hold a result with a URL
WithUrl(l) == {i \in 1..Len(l) : Truthy(DictGet(l[i], "url"))}

\* out lists the URLs of the results of l that have one, in the order of l
UrlsInOrderOf(out, l) ==
    /\ Len(out) = Cardinality(WithUrl(l))
    /\ \A k \in 1..Len(out) :
           \E i \in WithUrl(l) :
               /\ Cardinality({j \in WithUrl(l) : j < i}) = k - 1
               /\ out[k].url = DictGet(l[i], "url")

\* C13 as stated: a bare sequence of result objects, an object with a data
\* sequence and an object with a results sequence are all accepted, in this
\* priority, and the descriptors of the sequence are returned in its order.
C13_ThreeShapesAccepted ==
    (/\ probe.fn = "search"
     /\ probe.out # Pending
     /\ AllResultObjects(ResultSequence(probe.reply)))
        => UrlsInOrderOf(probe.out.val, ResultSequence(probe.reply))

\* C13: only an object whose data field is a sequence is accepted, and the
\* descriptors of its results are returned in the order of the sequence; a bare
\* sequence and an object with only a results sequence give no descriptor.
C13_OnlyDataShapeAccepted ==
    (probe.fn = "search" /\ probe.out # Pending)
        => /\ DataShaped(probe.reply)
                  => UrlsInOrderOf(probe.out.val, DictGet(probe.reply.body, "data").v)
           /\ (probe.reply.status = "ok" /\ IsList(probe.reply.body)) => probe.out.val = <<>>
           /\ (/\ probe.reply.status = "ok"
               /\ IsDict(probe.reply.body)
               /\ ~IsList(DictGet(probe.reply.body, "data")))
                  => probe.out.val = <<>>

\* two results with different URLs, a result without URL between them, were
\* returned in their order
C13_Witness ==
    /\ probe.fn = "search"
    /\ probe.out # Pending
    /\ DataShaped(probe.reply)
    /\ DictGet(probe.reply.body, "data").v = <<HitPlain, HitNoUrl, HitWwwOnly>>
    /\ Len(probe.out.val) = 2
    /\ probe.out.val[1].url = UrlPlain
    /\ probe.out.val[2].url = UrlWwwOnly

\* "series" stands in s in some mix of upper and lower case
ContainsAnyCase(s, word) ==
    \E i \in 1..(Len(s) - Len(word) + 1) :
        \A j \in 1..Len(word) :
            \/ s[i + j - 1] = word[j]
            \/ \E n \in 1..Len(LowerCase) : LowerCase[n] = word[j] /\ UpperCase[n] = s[i + j - 1]

\* C14: the query sent is the title followed by " TV series reviews" exactly
\* when the detail URL contains "tv-show" or, in any letter case, "series", and
\* the title followed by " movie reviews" otherwise; the limit sent is the
\* search_limit argument.
C14_QueryAndLimitSent ==
    (probe.fn = "search" /\ probe.out # Pending)
        => /\ probe.sent.limit = probe.search_limit
           /\ probe.sent.query =
                  IF \/ Contains(probe.item_detail_url, TvShow)
                     \/ ContainsAnyCase(probe.item_detail_url, Series)
                  THEN probe.item_title \o TvSeriesReviews
                  ELSE probe.item_title \o MovieReviews

\* a search was sent for a detail URL that spells "series" in mixed case
C14_Witness ==
    /\ probe.fn = "search"
    /\ probe.out # Pending
    /\ ~Contains(probe.item_detail_url, Series)
    /\ ContainsAnyCase(probe.item_detail_url, Series)
    /\ probe.sent.query = probe.item_title \o TvSeriesReviews
    /\ probe.sent.limit = MaxLimit

HasRecognizedScheme(s) == StartsWith(s, HTTP) \/ StartsWith(s, HTTPS) \/ StartsWith(s, FTP)

\* C15: for a URL with a non-empty authority the result is the authority with
\* only a leading "www." removed; a "www." elsewhere in it and a port are kept.
C15_OnlyLeadingWwwRemoved ==
    (/\ probe.fn = "domain"
     /\ probe.out # Pending
     /\ IsStr(probe.url)
     /\ HasRecognizedScheme(probe.url.v)
     /\ UrlparseNetloc(probe.url.v).exc = "none"
     /\ UrlparseNetloc(probe.url.v).val # <<>>)
        => LET authority == UrlparseNetloc(probe.url.v).val
           IN  probe.out.val = IF StartsWith(authority, WWW)
                               THEN SubSeq(authority, Len(WWW) + 1, Len(authority))
                               ELSE authority

\* C16: _get_domain_name never raises; a string without a recognized scheme is
\* resolved as the same string after "http://" when it starts with "www." or
\* holds a "." and neither starts nor ends with one, and gives "Unknown Source"
\* otherwise; the empty string, a URL without authority and a parse failure
\* give "Unknown Source".
C16_TotalWithSentinel ==
    (probe.fn = "domain" /\ probe.out # Pending)
        => /\ probe.out.exc = "none"
           /\ probe.url = PyStr(<<>>) => probe.out.val = UnknownSource
           /\ (IsStr(probe.url) /\ probe.url.v # <<>>)
                  => LET s == probe.url.v
                         u == IF HasRecognizedScheme(s) THEN s ELSE HTTP \o s
                     IN  /\ (/\ ~HasRecognizedScheme(s)
                             /\ \/ StartsWith(s, WWW)
                                \/ /\ \E i \in 1..Len(s) : s[i] = "."
                                   /\ Head(s) # "."
                                   /\ s[Len(s)] # ".")
                                => probe.out.val = _get_domain_name(PyStr(HTTP \o s))
                         /\ (/\ ~HasRecognizedScheme(s)
                             /\ ~StartsWith(s, WWW)
                             /\ \/ \A i \in 1..Len(s) : s[i] # "."
                                \/ Head(s) = "."
                                \/ s[Len(s)] = ".")
                                => probe.out.val = UnknownSource
                         /\ (HasRecognizedScheme(s) /\ UrlparseNetloc(s).exc = "none"
                                 /\ UrlparseNetloc(s).val = <<>>)
                                => probe.out.val = UnknownSource
                         /\ (UrlparseNetloc(u).exc # "none") => probe.out.val = UnknownSource

\* a schemeless string that starts with "www." was parsed after "http://" and
\* the parse failed
C16_Witness ==
    /\ probe.fn = "domain"
    /\ probe.out # Pending
    /\ IsStr(probe.url)
    /\ StartsWith(probe.url.v, WWW)
    /\ UrlparseNetloc(HTTP \o probe.url.v).exc = "ValueError"
    /\ probe.out = [exc |-> "none", val |-> UnknownSource]

\* the items of the listing as the collaborator sent it, <<>> when it holds none
ListedItems(resp) ==
    IF resp.status = "ok" /\ ListingTry(resp, FALSE).found THEN ListingTry(resp, FALSE).val
    ELSE <<>>

\* C17: with test_mode enabled get_new_releases returns exactly 2 entries when
\* the listing holds at least 2 items and no item raises, never returns more
\* than 2, and makes no detail request for an item after the second.
C17_TestModeFirstTwoOnly ==
    (probe.fn = "releases" /\ probe.test_mode)
        => /\ \A i \in 1..Len(probe.requests) : probe.requests[i].pos <= 2
           /\ Len(probe.requests) <= 2
           /\ Len(probe.out.val) <= 2
           /\ (/\ probe.at = "done"
               /\ probe.fault = "none"
               /\ Len(ListedItems(probe.listing)) >= 2)
                  => Len(probe.out.val) = 2

\* a test-mode run over a listing of three items with detail URLs has returned
\* two entries after two detail requests
C17_Witness ==
    /\ probe.fn = "releases"
    /\ probe.test_mode
    /\ probe.at = "done"
    /\ Len(ListedItems(probe.listing)) = 3
    /\ \A i \in 1..3 : HasKey(ListedItems(probe.listing)[i], "detailUrl")
    /\ Len(probe.requests) = 2
    /\ Len(probe.out.val) = 2

\* C18: fetch_reviews_for_item keeps no state between invocations: a call starts
\* its loop with an empty accumulator, and a second call given the arguments,
\* the configuration and the replies of the first returns the same record
\* sequence, whatever the first call returned.
C18_NoStateBetweenCalls ==
    /\ (pc = "loop" /\ scrape_log = <<>>) => collected_reviews = <<>>
    /\ (probe.fn = "replay" /\ probe.call = 2 /\ pc = "done") => returned = probe.first

\* a second call has returned after a first call that returned records of two
\* pages
C18_Witness ==
    /\ probe.fn = "replay"
    /\ probe.call = 2
    /\ pc = "done"
    /\ Len(probe.scrapes) >= 2
    /\ probe.used = Len(probe.scrapes)
    /\ Len(probe.first) >= 2
    /\ probe.first[1] # probe.first[2]

\* the records of the pages extracted so far, one page after the other
RECURSIVE PagesConcatenated(_)
PagesConcatenated(log) ==
    IF log = <<>> THEN <<>> ELSE Head(log).reviews \o PagesConcatenated(Tail(log))

\* C19: the pages extracted are those of the leading descriptors, in descriptor
\* order, and the result is the first max_total_reviews_per_item records of
\* the concatenation of their extraction results: of a page that yields more
\* than the remaining quota exactly the leading records that fit are kept.  A
\* result below the cap holds the pages of all of the first
\* max_search_results_to_process descriptors.
C19_ResultIsCappedConcatenation ==
    /\ \A i \in LogIndices :
           /\ scrape_log[i].pos = i
           /\ scrape_log[i].url = search_results[i].url
    /\ collected_reviews = Slice(PagesConcatenated(scrape_log), max_total_reviews)
    /\ pc = "done" =>
           /\ returned = Slice(PagesConcatenated(scrape_log), max_total_reviews)
           /\ Len(returned) < max_total_reviews =>
                  Len(scrape_log) = Min(Len(search_results), max_search_results_to_process)

\* a call has returned a full list whose last page, after an earlier page that
\* gave a record, yielded more than the remaining quota
C19_Witness ==
    /\ pc = "done"
    /\ Len(returned) = max_total_reviews
    /\ \E i \in LogIndices :
           /\ scrape_log[i].before >= 1
           /\ scrape_log[i].before + Len(scrape_log[i].reviews) > max_total_reviews
           /\ returned[max_total_reviews] = scrape_log[i].reviews[1]

\* the descriptor built from a result object
DescriptorOf(r) ==
    [url |-> IF HasKey(r, "url") THEN Item(r, "url") ELSE PyNone,
     title |-> IF HasKey(r, "title") THEN Item(r, "title") ELSE PyStr(UnknownSource)]

\* C20 as stated: one descriptor is returned for every result object of the
\* sequence, also for a result that lacks a URL.
C20_DescriptorForEveryResult ==
    (probe.fn = "search" /\ probe.out # Pending /\ DataShaped(probe.reply))
        => LET data == DictGet(probe.reply.body, "data").v
           IN  /\ Len(probe.out.val) = Len(data)
               /\ \A i \in 1..Len(data) : probe.out.val[i] = DescriptorOf(data[i])

\* C20: _search_for_review_pages filters: a result whose URL is missing or
\* empty gives no descriptor, every descriptor returned is the {url, title} of
\* a result that has a URL, the title being "Unknown Source" when the result
\* has none, and every such result gives one.
C20_UrlLessResultsDropped ==
    (probe.fn = "search" /\ probe.out # Pending /\ DataShaped(probe.reply))
        => LET data == DictGet(probe.reply.body, "data").v
           IN  /\ \A k \in 1..Len(probe.out.val) :
                      /\ probe.out.val[k].url \notin {PyNone, PyStr(<<>>)}
                      /\ \E i \in 1..Len(data) : probe.out.val[k] = DescriptorOf(data[i])
               /\ \A i \in 1..Len(data) :
                      \/ ~HasKey(data[i], "url")
                      \/ Item(data[i], "url") \in {PyNone, PyStr(<<>>)}
                      \/ \E k \in 1..Len(probe.out.val) : probe.out.val[k] = DescriptorOf(data[i])
               /\ Len(probe.out.val) =
                      Len(SelectSeq(data, LAMBDA r : DescriptorOf(r).url \notin {PyNone, PyStr(<<>>)}))

\* of a result without URL, a result with an empty URL and a result with a URL
\* but no title, only the last was returned
C20_Witness ==
    /\ probe.fn = "search"
    /\ probe.out # Pending
    /\ DataShaped(probe.reply)
    /\ DictGet(probe.reply.body, "data").v = <<HitNoUrl, HitEmptyUrl, HitWwwOnly>>
    /\ probe.out.val = <<[url |-> UrlWwwOnly, title |-> PyStr(UnknownSource)]>>

\* the value under data.<key> of a reply body, None when there is none
ShapeValue(body, key) ==
    IF IsDict(body) /\ IsDict(DictGet(body, "data")) THEN DictGet(DictGet(body, "data"), key)
    ELSE PyNone

\* the known keys, highest priority first
ShapeKeys == <<"llm_extraction", "extracted_data">>

\* the positions of ShapeKeys whose value in the body is a non-empty list
NonEmptyShapes(body) ==
    {n \in 1..Len(ShapeKeys) :
        IsList(ShapeValue(body, ShapeKeys[n])) /\ ShapeValue(body, ShapeKeys[n]).v # <<>>}

\* C21: the first known key whose value is a non-empty list gives the records:
\* when data.llm_extraction is an empty list and data.extracted_data a
\* non-empty one, the records of data.extracted_data are used.
C21_FirstNonEmptyShapeUsed ==
    (/\ probe.fn = "scrape"
     /\ probe.out # Pending
     /\ probe.reply.status = "ok"
     /\ NonEmptyShapes(probe.reply.body) # {})
        => LET first == CHOOSE n \in NonEmptyShapes(probe.reply.body) :
                            \A m \in NonEmptyShapes(probe.reply.body) : n <= m
               records == ShapeValue(probe.reply.body, ShapeKeys[first]).v
           IN  probe.out.val =
                   ScrapeLoop(Slice(records, probe.max_reviews_per_site), probe.page_url, <<>>).val

\* a raw value the page loop may emit a record for: an object with a non-empty
\* string under review_text
Acceptable(raw) ==
    /\ IsDict(raw)
    /\ IsStr(DictGet(raw, "review_text"))
    /\ DictGet(raw, "review_text").v # <<>>

\* C22: a rejected raw value never aborts the page: among the first
\* max_reviews_per_site raw values every acceptable one gives a record, also
\* after a non-object, a missing or empty text, or a text that is no string.
C22_RejectedNeverAborts ==
    (probe.fn = "scrape" /\ probe.out # Pending)
        => LET raw == Slice(RawList(probe.reply), probe.max_reviews_per_site)
               good == {i \in 1..Len(raw) : Acceptable(raw[i])}
           IN  /\ Len(probe.out.val) = Cardinality(good)
               /\ \A i \in good :
                      BuiltFrom(probe.out.val[Cardinality({j \in good : j <= i})],
                                raw[i], probe.page_url)

\* the positions the loop has gone past
Considered == 1..Min(idx - 1, Len(search_results))

\* the positions gone past whose descriptor has no URL, or an empty one
SkippedPositions == {p \in Considered : search_results[p].url \in {PyNone, PyStr(<<>>)}}

\* C23: no extraction call is made with a missing or empty URL: a descriptor
\* without a URL is gone past without a call, and the loop goes on: a call that
\* ends below the cap has extracted every descriptor with a URL among the first
\* max_search_results_to_process.
C23_NoExtractionWithoutUrl ==
    /\ \A i \in LogIndices :
           /\ scrape_log[i].url \notin {PyNone, PyStr(<<>>)}
           /\ scrape_log[i].url = search_results[scrape_log[i].pos].url
           /\ scrape_log[i].pos \notin SkippedPositions
    /\ (pc = "done" /\ Len(returned) < max_total_reviews)
           => \A p \in 1..Min(Len(search_results), max_search_results_to_process) :
                  \/ p \in SkippedPositions
                  \/ \E i \in LogIndices : scrape_log[i].pos = p

\* a call has ended after it went past a descriptor without URL and extracted
\* a later one
C23_Witness ==
    /\ pc = "done"
    /\ \E p \in SkippedPositions, i \in LogIndices :
           /\ search_results[p].url = PyNone
           /\ scrape_log[i].pos > p
           /\ scrape_log[i].got >= 1

\* C28: a descriptor skipped for its missing URL uses up a slot: extraction
\* calls and skipped descriptors together never exceed
\* max_search_results_to_process, and no descriptor beyond that position is
\* extracted, however few pages were scraped.
C28_SkippedUsesSlot ==
    /\ Len(scrape_log) + Cardinality(SkippedPositions) <= max_search_results_to_process
    /\ \A i \in LogIndices : scrape_log[i].pos <= max_search_results_to_process

\* a call has ended below the cap with fewer pages scraped than
\* max_search_results_to_process, a descriptor skipped, and a descriptor with a
\* URL left beyond the limit
C28_Witness ==
    /\ pc = "done"
    /\ SkippedPositions # {}
    /\ Len(scrape_log) < max_search_results_to_process
    /\ Len(returned) < max_total_reviews
    /\ \E p \in 1..Len(search_results) :
           /\ p > max_search_results_to_process
           /\ search_results[p].url = UrlPlain

\* the configuration sets scraping.review_search_limit
SetsSearchLimit(config) ==
    /\ HasKey(config, "scraping")
    /\ HasKey(Item(config, "scraping"), "review_search_limit")

\* C24: a call makes exactly one search, before any extraction call, with the
\* limit scraping.review_search_limit of the configuration, 5 when the
\* configuration does not set it, whatever max_search_results_to_process is.
C24_OneSearchWithConfiguredLimit ==
    (probe.fn = "configured" /\ pc # "idle")
        => /\ Len(probe.searches) = 1
           /\ probe.searches[1].before = 0
           /\ probe.searches[1].limit =
                  IF SetsSearchLimit(probe.config)
                  THEN Item(Item(probe.config, "scraping"), "review_search_limit").v[1]
                  ELSE 5

\* a call has ended after two extraction calls, its one search made with a
\* configured limit that differs from max_search_results_to_process
C24_Witness ==
    /\ probe.fn = "configured"
    /\ pc = "done"
    /\ Len(scrape_log) = 2
    /\ SetsSearchLimit(probe.config)
    /\ Len(probe.searches) = 1
    /\ probe.searches[1].limit = 1
    /\ max_search_results_to_process = 2

\* the number of descriptors the loop may consider
Slots == Min(Len(search_results), max_search_results_to_process)

\* C25: an extraction that fails and gives no record does not end the
\* aggregation: unless it was the last descriptor to process, the call is not
\* ended by it and the next descriptor is extracted, and the first record of
\* every later page is returned.
C25_FailedPageDoesNotEnd ==
    \A i \in LogIndices :
        (scrape_log[i].fault # "none" /\ scrape_log[i].got = 0)
            => /\ pc # "raised"
               /\ scrape_log[i].pos < Slots
                      => \/ pc = "loop" /\ i = Len(scrape_log)
                         \/ \E j \in LogIndices : scrape_log[j].pos = scrape_log[i].pos + 1
               /\ pc = "done"
                      => \A j \in LogIndices :
                             (j > i /\ scrape_log[j].reviews # <<>>)
                                 => \E k \in 1..Len(returned) :
                                        returned[k] = scrape_log[j].reviews[1]

\* a call has returned the record of its second page after the extraction of
\* its first page failed
C25_Witness ==
    /\ pc = "done"
    /\ Len(scrape_log) >= 2
    /\ scrape_log[1].fault = "http_error"
    /\ scrape_log[2].got >= 1
    /\ returned = <<scrape_log[2].reviews[1]>>

\* C26: every call terminates, and when the loop of it has ended all descriptors
\* returned were considered, or max_search_results_to_process of them were, or
\* the accumulated count equals max_total_reviews_per_item.
C26_TerminatesOnOneOfThree ==
    /\ [](pc = "done" =>
              \/ Considered = DOMAIN search_results
              \/ Cardinality(Considered) = max_search_results_to_process
              \/ Len(collected_reviews) = max_total_reviews)
    /\ (pc = "loop" ~> pc = "done")

\* a call has ended below the cap and below max_search_results_to_process,
\* every descriptor returned considered
C26_Witness ==
    /\ pc = "done"
    /\ search_results # <<>>
    /\ idx > Len(search_results)
    /\ idx <= max_search_results_to_process
    /\ Len(collected_reviews) < max_total_reviews

\* C27: the extraction calls of a call are issued in descriptor order, each
\* for the descriptor the loop stands at and at most once per descriptor, and
\* each when the records of the call before it have been accumulated.
C27_SequentialInOrderOnce ==
    /\ \A i \in LogIndices :
           /\ scrape_log[i].pos < idx
           /\ scrape_log[i].url = search_results[scrape_log[i].pos].url
    /\ \A i \in LogIndices, j \in LogIndices :
           i < j => scrape_log[i].pos < scrape_log[j].pos
    /\ \A i \in LogIndices :
           i < Len(scrape_log)
               => scrape_log[i + 1].before =
                      Min(scrape_log[i].before + scrape_log[i].got, max_total_reviews)

\* a call has extracted two pages of different URLs, the second after the
\* record of the first was accumulated
C27_Witness ==
    /\ pc = "done"
    /\ Len(scrape_log) = 2
    /\ scrape_log[1].url # scrape_log[2].url
    /\ scrape_log[1].got >= 1
    /\ scrape_log[2].before = 1

\* the keys of a dict
KeysOf(d) == {d.v[i][1] : i \in 1..Len(d.v)}

\* the detail request answered with detail fields: a decoded object with a
\* truthy success and an object of at least one field under data.json
YieldsData(reply) ==
    /\ reply.status = "ok"
    /\ IsDict(reply.body)
    /\ Truthy(DictGet(reply.body, "success"))
    /\ IsDict(DictGet(reply.body, "data"))
    /\ IsDict(DictGet(DictGet(reply.body, "data"), "json"))
    /\ DictGet(DictGet(reply.body, "data"), "json").v # <<>>

\* the detail fields of such a reply
DetailFields(reply) == DictGet(DictGet(reply.body, "data"), "json")

\* entry is item overlaid with info: every key of either, once; the value of
\* info where info has the key, the value of item otherwise
IsOverlay(entry, item, info) ==
    /\ IsDict(entry)
    /\ KeysOf(entry) = KeysOf(item) \cup KeysOf(info)
    /\ Len(entry.v) = Cardinality(KeysOf(entry))
    /\ \A key \in KeysOf(info) : Item(entry, key) = Item(info, key)
    /\ \A key \in KeysOf(item) \ KeysOf(info) : Item(entry, key) = Item(item, key)

\* the detail requests made for the item at position p
RequestsFor(p) == {j \in 1..Len(probe.requests) : probe.requests[j].pos = p}

\* C29: get_new_releases holds one entry per processed listing item, in listing
\* order: the item overlaid with the detail fields when it has a detailUrl and
\* the detail request yields data, the unchanged item otherwise; one detail
\* request is made per item with a detailUrl and none for the others; and when
\* no exception occurred these entries are what the call returns.
C29_OneEntryPerItemInOrder ==
    probe.fn = "releases"
        => /\ \A p \in 1..Len(probe.detailed_items) :
                  LET item == probe.items[p]
                      entry == probe.detailed_items[p]
                  IN  IF HasKey(item, "detailUrl")
                      THEN /\ Cardinality(RequestsFor(p)) = 1
                           /\ \A j \in RequestsFor(p) :
                                  IF YieldsData(probe.requests[j].reply)
                                  THEN IsOverlay(entry, item,
                                                 DetailFields(probe.requests[j].reply))
                                  ELSE entry = item
                      ELSE /\ RequestsFor(p) = {}
                           /\ entry = item
           /\ (probe.at = "loop" /\ probe.fault = "none")
                  => Len(probe.detailed_items) = probe.idx - 1
           /\ (probe.at = "done" /\ probe.fault = "none")
                  => /\ probe.out.val = probe.detailed_items
                     /\ Len(probe.out.val) = Len(probe.items)

\* a call has returned a first entry that carries the title of the detail
\* page and the detailUrl of the listing, and a second that is the listing
\* item, which has no detailUrl
C29_Witness ==
    /\ probe.fn = "releases"
    /\ probe.at = "done"
    /\ probe.fault = "none"
    /\ Len(probe.out.val) = 2
    /\ probe.items[1] = ItemA
    /\ Item(probe.out.val[1], "title") = PyStr(<<"A", "2">>)
    /\ Item(probe.out.val[1], "detailUrl") = Item(ItemA, "detailUrl")
    /\ HasKey(probe.out.val[1], "synopsis")
    /\ probe.items[2] = ItemNoUrl
    /\ probe.out.val[2] = ItemNoUrl
    /\ Len(probe.requests) = 1

\* a decoded listing response without success, or without items
WithoutItems(resp) ==
    /\ resp.status = "ok"
    /\ IsDict(resp.body)
    /\ \/ ~Truthy(DictGet(resp.body, "success"))
       \/ ~HasKey(resp.body, "data")
       \/ /\ IsDict(DictGet(resp.body, "data"))
          /\ \/ ~HasKey(DictGet(resp.body, "data"), "json")
             \/ /\ IsDict(DetailFields(resp))
                /\ ~Truthy(DictGet(DetailFields(resp), "items"))

\* C30: get_new_releases never raises and never returns a partial list: after
\* an exception at any point, the processing of a later item included, it
\* returns the empty list; what it returns is empty or has an entry for every
\* item of the loop; and a listing response without success or without items
\* gives the empty list with no detail request made.
C30_EmptyListOnAnyException ==
    probe.fn = "releases"
        => /\ probe.out.exc \in {"pending", "none"}
           /\ probe.at = "done"
                  => /\ probe.out.exc = "none"
                     /\ probe.fault # "none" => probe.out.val = <<>>
                     /\ probe.out.val = <<>> \/ Len(probe.out.val) = Len(probe.items)
                     /\ WithoutItems(probe.listing)
                            => probe.out.val = <<>> /\ probe.requests = <<>>

\* a call has returned the empty list after its second item, which has no
\* title, raised KeyError, the entry of the first item with its detail fields
\* dropped
C30_Witness ==
    /\ probe.fn = "releases"
    /\ probe.at = "done"
    /\ probe.fault = "KeyError"
    /\ Len(probe.detailed_items) = 1
    /\ HasKey(probe.detailed_items[1], "synopsis")
    /\ probe.items[2] = ItemNoTitle
    /\ probe.out = [exc |-> "none", val |-> <<>>]

====
